---------------------------- MODULE Spec2Model ----------------------------
(***************************************************************************)
(* A model of the vscode-filter-line extension: a filter object            *)
(* (FilterLineByInputString or FilterLineByInputRegex, both extending      *)
(* FilterLineBase) and the runs of its filter() command.                   *)
(*                                                                         *)
(* The specifications share the variables:                                 *)
(*   Spec        one run: filter -> prepare -> filter_ (Filter.process,    *)
(*               then the placement of the temp file);                     *)
(*   SpecSource  Filter.createInputStream on every small list of opened    *)
(*               documents;                                                *)
(*   SpecMatch   matchLine of both filter classes on every small line;     *)
(*   SpecPipe    the pipeline of Filter.process on every short text, cut   *)
(*               into chunks in every way;                                 *)
(*   SpecName    the paths of the temp file and of the saved file, for     *)
(*               every short file name;                                    *)
(*   SpecRuns    two runs on one filter object, interleaved;               *)
(*   SpecHistory addToHistory over the sessions of the extension.          *)
(*                                                                         *)
(* Every await of the code is a place where an action ends; the outcome of *)
(* an awaited call of the host (the file system, the editor) is an input   *)
(* of the action that resumes after it.                                    *)
(***************************************************************************)
EXTENDS Integers, Sequences, FiniteSets, TLC

(***************************************************************************)
(* Optional values (TypeScript's `T | undefined`).                         *)
(***************************************************************************)
Undefined == [some |-> FALSE]

Some(v) == [some |-> TRUE, val |-> v]

IsDefined(o) == o.some

Min(a, b) == IF a <= b THEN a ELSE b

(***************************************************************************)
(* Bounds of the model.                                                    *)
(***************************************************************************)
\* the small temp-file sizes are within SizeSlack bytes of 0..MaxSmallChunks
\* whole chunks; the large ones within SizeSlack bytes of LARGE_MODE_THR
MaxSmallChunks == 2

SizeSlack == 1

\* how many chunk insertions of one run the editor may decline
MaxDeclined == 1

\* the longest list of opened documents in SpecSource
MaxDocs == 2

\* the longest pattern, the longest line and the most lines in SpecMatch
MaxPatLen == 2

MaxLineLen == 2

MaxLines == 2

\* the longest source text in SpecPipe, in characters
MaxTextLen == 4

\* the clock reads StartClock..StartClock + MaxClock milliseconds
StartClock == 9

MaxClock == 1

\* the longest file name in SpecName
MaxNameLen == 3

\* the largest history size in SpecHistory
MaxHistSize == 2

(***************************************************************************)
(* Program constants.                                                      *)
(***************************************************************************)
LARGE_MODE_THR == 30 * 1024 * 1024

\* highWaterMark of the read stream over the temp file (filter_base.ts:223)
HighWaterMark == 100 * 1024

\* default of getHistoryMaxSize (filter_base.ts:107)
HistorySizeDefault == 10

(***************************************************************************)
(* Uris and opened documents.                                              *)
(***************************************************************************)
\* a file on disk has the scheme 'file'; the git extension opens a file's
\* committed version under the scheme 'git' and the file's path; a new document
\* without a file has the scheme 'untitled' and a path of its own
FilePaths == {"/d/a.log", "/d/b.log"}

Uris == [scheme : {"file", "git"}, path : FilePaths]
        \cup [scheme : {"untitled"}, path : {"Untitled-1"}]

\* a TextDocument of workspace.textDocuments; a 'git' document is read-only
\* and so never dirty
Docs == {d \in [uri : Uris, isDirty : BOOLEAN] : d.uri.scheme = "git" => ~d.isDirty}

RECURSIVE SeqsUpTo(_, _)
SeqsUpTo(S, n) ==
    IF n = 0 THEN {<<>>}
    ELSE LET shorter == SeqsUpTo(S, n - 1)
         IN  shorter \cup {Append(s, x) : s \in {t \in shorter : Len(t) = n - 1}, x \in S}


(***************************************************************************)
(* Text: a string is a sequence of one-character strings.                  *)
(***************************************************************************)
LineAlphabet == {"a", "b"}

\* what the user can type into the pick: "(" and a leading or doubled "*" make
\* `new RegExp` throw
PatternAlphabet == {"a", "b", ".", "*", "("}

\* String.prototype.indexOf(p), searched from position i (0-based); -1 if absent
RECURSIVE IndexOfFrom(_, _, _)
IndexOfFrom(line, p, i) ==
    IF i + Len(p) > Len(line) THEN -1
    ELSE IF SubSeq(line, i + 1, i + Len(p)) = p THEN i
    ELSE IndexOfFrom(line, p, i + 1)

IndexOf(line, p) == IndexOfFrom(line, p, 0)

(***************************************************************************)
(* `new RegExp(usrChoice)` on PatternAlphabet: it throws a SyntaxError for *)
(* an unterminated group and for a quantifier with nothing to repeat;      *)
(* otherwise the regular expression is a sequence of atoms (a character or *)
(* ".", each possibly starred).  It has no flags, so line.match(regex) is  *)
(* a search for the first match anywhere in the line and keeps no state.   *)
(***************************************************************************)
RegExpThrows(src) ==
    \E i \in 1..Len(src) :
        \/ src[i] = "("
        \/ src[i] = "*" /\ (i = 1 \/ src[i - 1] = "*")

RECURSIVE RegExpAtoms(_, _)
RegExpAtoms(src, i) ==
    IF i > Len(src) THEN <<>>
    ELSE IF i < Len(src) /\ src[i + 1] = "*"
         THEN <<[ch |-> src[i], star |-> TRUE]>> \o RegExpAtoms(src, i + 2)
         ELSE <<[ch |-> src[i], star |-> FALSE]>> \o RegExpAtoms(src, i + 1)

AtomAccepts(atom, c) == atom.ch = "." \/ atom.ch = c

\* the atoms match a prefix of the line's rest that starts at position i (1-based)
RECURSIVE MatchHere(_, _, _)
MatchHere(atoms, line, i) ==
    IF atoms = <<>> THEN TRUE
    ELSE LET atom == Head(atoms)
             here == i <= Len(line) /\ AtomAccepts(atom, line[i])
         IN  IF atom.star
             THEN \/ here /\ MatchHere(atoms, line, i + 1)
                  \/ MatchHere(Tail(atoms), line, i)
             ELSE here /\ MatchHere(Tail(atoms), line, i + 1)

\* line.match(regex) !== null
RegExpMatches(src, line) ==
    \E i \in 1..(Len(line) + 1) : MatchHere(RegExpAtoms(src, 1), line, i)

(***************************************************************************)
(* matchLine of the two filter classes: the line, or undefined.            *)
(***************************************************************************)
\* a variant: notcontain is not looked at
MatchLineString_NoNegation(inputstring, notcontain, line) ==
    IF ~IsDefined(inputstring) THEN Undefined
    ELSE IF IndexOf(line, inputstring.val) # -1 THEN Some(line)
    ELSE Undefined

MatchLineString(inputstring, notcontain, line) ==
    IF ~IsDefined(inputstring) THEN Undefined
    ELSE IF notcontain
         THEN IF IndexOf(line, inputstring.val) = -1 THEN Some(line) ELSE Undefined
         ELSE IF IndexOf(line, inputstring.val) # -1 THEN Some(line) ELSE Undefined

MatchLineRegex(regex, notmatch, line) ==
    IF ~IsDefined(regex) THEN Undefined
    ELSE IF notmatch
         THEN IF ~RegExpMatches(regex.val, line) THEN Some(line) ELSE Undefined
         ELSE IF RegExpMatches(regex.val, line) THEN Some(line) ELSE Undefined

(***************************************************************************)
(* Filter.findOpenedDoc and Filter.createInputStream.                      *)
(***************************************************************************)
\* Array.prototype.find: the first element that satisfies the test
FindOpenedDoc(fromUri, docs) ==
    LET hits == {i \in 1..Len(docs) : docs[i].uri.path = fromUri.path}
    IN  IF hits = {} THEN Undefined
        ELSE Some(docs[CHOOSE i \in hits : \A j \in hits : i <= j])

\* the stream that is returned: over a document, over the file on disk, or none
\* (the Error 'TextDocument not found' is thrown)
CreateInputStream(fromUri, docs) ==
    LET doc == FindOpenedDoc(fromUri, docs)
    IN  IF fromUri.scheme = "file"
        THEN IF IsDefined(doc) /\ doc.val.isDirty
             THEN [from |-> "doc", doc |-> doc]
             ELSE [from |-> "disk", doc |-> Undefined]
        ELSE IF ~IsDefined(doc)
             THEN [from |-> "throw", doc |-> Undefined]
             ELSE [from |-> "doc", doc |-> doc]

(***************************************************************************)
(* FilterLineBase.addToHistory on the list of the class's HIST_KEY (the    *)
(* constructors make sure that the key is there).                          *)
(***************************************************************************)
\* Array.prototype.splice(start): the elements before `start` stay
SpliceFrom(list, start) == SubSeq(list, 1, Min(start, Len(list)))

\* Array.prototype.splice(idx, 1), idx 0-based
SpliceOne(list, idx) == SubSeq(list, 1, idx) \o SubSeq(list, idx + 2, Len(list))

\* Array.prototype.indexOf, 0-based, -1 if absent
ListIndexOf(list, el) ==
    LET hits == {i \in 1..Len(list) : list[i] = el}
    IN  IF hits = {} THEN -1 ELSE (CHOOSE i \in hits : \A j \in hits : i <= j) - 1

\* a variant: a pattern that is in the list is not taken out of its place
AddToHistory_NoRemove(list, maxSz, newEl) ==
    LET cut == IF Len(list) >= maxSz THEN SpliceFrom(list, maxSz) ELSE list
        idx == ListIndexOf(cut, newEl)
    IN  [list |-> <<newEl>> \o cut, updated |-> idx = -1]

\* the list after the call, and whether globalState.update was called with it
AddToHistory(list, maxSz, newEl) ==
    LET cut == IF Len(list) >= maxSz THEN SpliceFrom(list, maxSz) ELSE list
        idx == ListIndexOf(cut, newEl)
    IN  IF idx = -1
        THEN [list |-> <<newEl>> \o cut, updated |-> TRUE]
        ELSE [list |-> <<newEl>> \o SpliceOne(cut, idx), updated |-> FALSE]

(***************************************************************************)
(* The state.                                                              *)
(***************************************************************************)
VARIABLES
    \* the filter object
    kind,           \* "string": FilterLineByInputString, "regex": FilterLineByInputRegex
    _inputstring,   \* FilterLineByInputString._inputstring
    _regex,         \* FilterLineByInputRegex._regex (the source of the RegExp)
    history,        \* FilterLineBase.history[HIST_KEY]
    persisted,      \* what globalState holds under 'history', for HIST_KEY
    \* the host
    textDocuments,  \* workspace.textDocuments
    shown,          \* the messages shown to the user, in order: <<level, text>>
    logged,         \* the lines of the output channel, in order
    calls,          \* the host operations the run has called so far
    \* the run
    pc,             \* where the run is suspended
    srcUri,         \* filter's srcUri, filter_'s uri, Filter.fromUri
    usrChoice,      \* prepare's usrChoice: what the user accepted in the pick
    callbacks,      \* the arguments prepare has given to its callback, in order
    input,          \* what createInputStream returned
    tmpFile,        \* the temp file: "absent", "partial", "complete", "removed"
    tmpSize,        \* the bytes of the complete filtered output
    adjFile,        \* the output stands in the source's folder
    saveFlag,       \* filter_'s saveFlag
    largeModeFlag,  \* filter_'s largeModeFlag
    dstPath,        \* filter_'s dstPath: "tmp" or "adjacent"
    processed,      \* filter_'s processed
    caught,         \* the name of the error caught at line 237: "none" if none
    buffer,         \* the untitled document: undefined, or the bytes it holds
    offset,         \* the bytes of the temp file that readStream has delivered
    declined,       \* the insertions the editor has declined
    openedDoc,      \* the file shown by showTextDocument: "none", "tmp", "adjacent"
    \* SpecMatch
    source,         \* the lines given to matchLine, in order
    kept,           \* matchLine's results for them, for notcontain / notmatch =
                    \* FALSE and TRUE
    \* the filter object, once more
    notcontain,     \* FilterLineByInputString.notcontain, FilterLineByInputRegex.notmatch
    historySize,    \* the setting filter-line.historySize
    lastAdd,        \* SpecHistory: the list before the last addToHistory, and newEl
    \* SpecPipe
    srcText,        \* the characters of the source
    chunks,         \* the chunks the input stream has delivered, in order
    leftover,       \* the partial line FilterStream holds between chunks
    outText,        \* the characters written to the temp file
    \* SpecName and SpecRuns
    now,            \* the clock: new Date().getTime()
    outPath,        \* Filter.process's outPath
    tmpPath,        \* the Uri Filter.process returns (filter_'s tmpPath)
    movedTo,        \* the path moveAsync has moved the temp file to
    runs            \* SpecRuns: the runs of filter_ on the filter object

objVars == <<kind, _inputstring, _regex, history, persisted>>

hostVars == <<textDocuments, shown, logged, calls>>

runVars == <<pc, srcUri, usrChoice, callbacks, input, tmpFile, tmpSize, adjFile,
             saveFlag, largeModeFlag, dstPath, processed, caught, buffer, offset,
             declined, openedDoc>>

matchVars == <<source, kept>>

histVars == <<historySize, lastAdd>>

pipeVars == <<srcText, chunks, leftover, outText>>

nameVars == <<now, outPath, tmpPath, movedTo>>

moreVars == <<notcontain, histVars, pipeVars, nameVars, runs>>

vars == <<objVars, hostVars, runVars, matchVars, moreVars>>

(***************************************************************************)
(* The messages.                                                           *)
(***************************************************************************)
MsgNoFile == "No file selected or file is too large"

MsgRegex == "Regex incorrect"

MsgNoFolder == "Don't know where to save file. Saved into temporary folder"

MsgMove == "Error occurred on save file to origin folder. Saved into temporary folder"

MsgLarge == "Filtered content is larger then Visual Studio Code limitations. Saved into temporary folder"

MsgDone == "Filtering completed :)"

\* showInfo, showWarning, showError: a line of the log and a message
ShowInfo(text) ==
    /\ shown' = Append(shown, <<"info", text>>)
    /\ logged' = Append(logged, text)

ShowWarning(text) ==
    /\ shown' = Append(shown, <<"warning", text>>)
    /\ logged' = Append(logged, text)

ShowError(text) ==
    /\ shown' = Append(shown, <<"error", text>>)
    /\ logged' = Append(logged, text)

(***************************************************************************)
(* The inputs of a run.                                                    *)
(***************************************************************************)
\* the sources of a run: a file on disk and a document without one
RunUris == {[scheme |-> "file", path |-> "/d/a.log"],
            [scheme |-> "untitled", path |-> "Untitled-1"]}

\* the opened documents of a run: none, or the source's own document
RunDocLists == {<<>>} \cup {<<d>> : d \in [uri : RunUris, isDirty : BOOLEAN]}

\* what the user accepts in the pick: nothing, a pattern, two invalid regexes
RunChoices == {<<>>, <<"a">>, <<"(">>, <<"*">>}

\* the sizes of the filtered output
Sizes ==
    {n \in UNION {{c * HighWaterMark - d, c * HighWaterMark + d} :
                    c \in 0..MaxSmallChunks, d \in 0..SizeSlack} : n >= 0}
    \cup UNION {{LARGE_MODE_THR - d, LARGE_MODE_THR + d} : d \in 0..SizeSlack}

(***************************************************************************)
(* Init: the filter object after its construction, nothing running.        *)
(***************************************************************************)
NoInput == [from |-> "none", doc |-> Undefined]

NotMatched == [negated \in BOOLEAN |-> <<>>]

\* the variables a specification does not use: the history size has its
\* default and addToHistory was not called; nothing was read or written by a
\* pipeline; no path was computed; the polarity has its default and no run
\* was started
HistFresh ==
    /\ historySize = HistorySizeDefault
    /\ lastAdd = Undefined

PipeFresh ==
    /\ srcText = <<>>
    /\ chunks = <<>>
    /\ leftover = <<>>
    /\ outText = <<>>

NameFresh ==
    /\ now = 0
    /\ outPath = Undefined
    /\ tmpPath = Undefined
    /\ movedTo = Undefined

MoreFresh ==
    /\ notcontain = FALSE
    /\ HistFresh
    /\ PipeFresh
    /\ NameFresh
    /\ runs = <<>>

\* the run's variables, but for pc and srcUri, before filter is called
RunFresh ==
    /\ usrChoice = Undefined
    /\ callbacks = <<>>
    /\ input = NoInput
    /\ tmpFile = "absent"
    /\ tmpSize = 0
    /\ adjFile = FALSE
    /\ saveFlag = FALSE
    /\ largeModeFlag = FALSE
    /\ dstPath = "tmp"
    /\ processed = FALSE
    /\ caught = "none"
    /\ buffer = Undefined
    /\ offset = 0
    /\ declined = 0
    /\ openedDoc = "none"

Init ==
    /\ kind \in {"string", "regex"}
    /\ _inputstring = Undefined
    /\ _regex = Undefined
    /\ history = <<>>
    /\ persisted = <<>>
    /\ textDocuments \in RunDocLists
    /\ shown = <<>>
    /\ logged = <<"Temp path">>
    /\ calls = {}
    /\ pc = "idle"
    /\ srcUri = Undefined
    /\ RunFresh
    /\ source = <<>>
    /\ kept = NotMatched
    /\ MoreFresh

(***************************************************************************)
(* FilterLineBase.filter, up to the await of the pick in prepare.          *)
(***************************************************************************)
\* getSourceUri
GetSourceUri(fileUri, activeTextEditor) ==
    IF ~IsDefined(fileUri) THEN activeTextEditor ELSE fileUri

\* filePath: the command's argument; activeTextEditor: the uri of the active
\* editor's document, which is an opened document
Filter(filePath, activeTextEditor) ==
    /\ pc = "idle"
    /\ srcUri' = GetSourceUri(filePath, activeTextEditor)
    /\ IF ~IsDefined(srcUri')
       THEN /\ ShowError(MsgNoFile)
            /\ pc' = "returned"
       ELSE /\ logged' = Append(logged, "will filter file")
            /\ shown' = shown
            /\ pc' = "pick"
    /\ UNCHANGED <<objVars, textDocuments, calls, usrChoice, callbacks, input,
                   tmpFile, tmpSize, adjFile, saveFlag, largeModeFlag, dstPath,
                   processed, caught, buffer, offset, declined, openedDoc,
                   matchVars, moreVars>>

(***************************************************************************)
(* prepare of the two classes, from the user's choice on: the field, the   *)
(* history, the lines logged, the messages shown and the calls of the      *)
(* callback, in order.                                                     *)
(***************************************************************************)
NoHistoryChange(list) == [list |-> list, updated |-> FALSE]

PrepareString(choice, field, list) ==
    IF choice = <<>>
    THEN [field |-> field, history |-> NoHistoryChange(list),
          logged |-> <<"User input is an empty">>, shown |-> <<>>,
          callbacks |-> <<FALSE>>]
    ELSE [field |-> Some(choice),
          history |-> AddToHistory(list, HistorySizeDefault, choice),
          logged |-> <<"User input">>, shown |-> <<>>,
          callbacks |-> <<TRUE>>]

\* a variant: the catch of the SyntaxError does not return, so prepare goes on
\* to addToHistory and callback(true)
PrepareRegex_NoReturn(choice, field, list) ==
    IF choice = <<>>
    THEN [field |-> field, history |-> NoHistoryChange(list),
          logged |-> <<"User input is an empty">>, shown |-> <<>>,
          callbacks |-> <<FALSE>>]
    ELSE IF RegExpThrows(choice)
    THEN [field |-> field,
          history |-> AddToHistory(list, HistorySizeDefault, choice),
          logged |-> <<"Regex is incorrect", MsgRegex>>,
          shown |-> <<<<"error", MsgRegex>>>>,
          callbacks |-> <<FALSE, TRUE>>]
    ELSE [field |-> Some(choice),
          history |-> AddToHistory(list, HistorySizeDefault, choice),
          logged |-> <<>>, shown |-> <<>>,
          callbacks |-> <<TRUE>>]

PrepareRegex(choice, field, list) ==
    IF choice = <<>>
    THEN [field |-> field, history |-> NoHistoryChange(list),
          logged |-> <<"User input is an empty">>, shown |-> <<>>,
          callbacks |-> <<FALSE>>]
    ELSE IF RegExpThrows(choice)
    THEN [field |-> field, history |-> NoHistoryChange(list),
          logged |-> <<"Regex is incorrect", MsgRegex>>,
          shown |-> <<<<"error", MsgRegex>>>>,
          callbacks |-> <<FALSE>>]
    ELSE [field |-> Some(choice),
          history |-> AddToHistory(list, HistorySizeDefault, choice),
          logged |-> <<>>, shown |-> <<>>,
          callbacks |-> <<TRUE>>]

\* the line that filter's callback logs for each of its calls
RECURSIVE SucceedLines(_)
SucceedLines(cbs) ==
    IF cbs = <<>> THEN <<>>
    ELSE <<IF Head(cbs) THEN "Succeed true" ELSE "Succeed false">> \o SucceedLines(Tail(cbs))

(***************************************************************************)
(* The user accepts usrChoice in the pick: the rest of prepare, filter's   *)
(* callback and, if it is called with true, filter_ and Filter.process up  *)
(* to the await of the pipeline.  createInputStream runs before            *)
(* fs.createWriteStream: when it throws, no temp file is created.          *)
(***************************************************************************)
Prepare(choice) ==
    /\ pc = "pick"
    /\ usrChoice' = Some(choice)
    /\ LET r == IF kind = "regex"
                THEN PrepareRegex(choice, _regex, history)
                ELSE PrepareString(choice, _inputstring, history)
           entered == \E i \in 1..Len(r.callbacks) : r.callbacks[i]
           in == CreateInputStream(srcUri.val, textDocuments)
       IN  /\ _regex' = IF kind = "regex" THEN r.field ELSE _regex
           /\ _inputstring' = IF kind = "string" THEN r.field ELSE _inputstring
           /\ history' = r.history.list
           /\ persisted' = IF r.history.updated THEN r.history.list ELSE persisted
           /\ shown' = shown \o r.shown
           /\ callbacks' = callbacks \o r.callbacks
           /\ logged' = logged \o r.logged \o SucceedLines(r.callbacks)
                        \o (IF entered /\ in.from = "throw"
                            THEN <<"Unable to find open document for provided URI">>
                            ELSE <<>>)
           /\ input' = IF entered THEN in ELSE input
           /\ IF ~entered
              THEN pc' = "ended" /\ UNCHANGED <<tmpFile, calls>>
              ELSE IF in.from = "throw"
              THEN pc' = "rejected" /\ UNCHANGED <<tmpFile, calls>>
              ELSE /\ pc' = "pipeline"
                   /\ tmpFile' = "partial"
                   /\ calls' = calls \cup {"createWriteStream"}
    /\ UNCHANGED <<kind, textDocuments, srcUri, tmpSize, adjFile, saveFlag,
                   largeModeFlag, dstPath, processed, caught, buffer, offset,
                   declined, openedDoc,
                   matchVars, moreVars>>

(***************************************************************************)
(* The pipeline of Filter.process ends: the temp file is written and       *)
(* filter_ goes on to statAsync, or a stage failed and the promise of      *)
(* filter_ is rejected (nothing awaits or catches it).                     *)
(***************************************************************************)
PipelineDone(size) ==
    /\ pc = "pipeline"
    /\ tmpFile' = "complete"
    /\ tmpSize' = size
    /\ calls' = calls \cup {"stat"}
    /\ pc' = "stat"
    /\ UNCHANGED <<objVars, textDocuments, shown, logged, srcUri, usrChoice,
                   callbacks, input, adjFile, saveFlag, largeModeFlag, dstPath,
                   processed, caught, buffer, offset, declined, openedDoc,
                   matchVars, moreVars>>

\* a variant: the rejection of the pipeline is swallowed and filter_ goes on
PipelineFail_GoesOn ==
    /\ pc = "pipeline"
    /\ calls' = calls \cup {"stat"}
    /\ pc' = "stat"
    /\ UNCHANGED <<objVars, textDocuments, shown, logged, srcUri, usrChoice,
                   callbacks, input, tmpFile, tmpSize, adjFile, saveFlag,
                   largeModeFlag, dstPath, processed, caught, buffer, offset,
                   declined, openedDoc, matchVars, moreVars>>

PipelineFail ==
    /\ pc = "pipeline"
    /\ pc' = "rejected"
    /\ UNCHANGED <<objVars, hostVars, srcUri, usrChoice, callbacks, input, tmpFile,
                   tmpSize, adjFile, saveFlag, largeModeFlag, dstPath, processed,
                   caught, buffer, offset, declined, openedDoc,
                   matchVars, moreVars>>

(***************************************************************************)
(* filter_ after statAsync: the flags and the branch of the placement.     *)
(***************************************************************************)
\* a variant: the threshold itself already counts as large
LargeModeFlag_AtLeast(size) == size >= LARGE_MODE_THR

LargeModeFlag(size) == size > LARGE_MODE_THR

\* a variant: with saveFlag the scheme of the source is not looked at
Branch_SchemeIgnored(save, uri, large) ==
    IF save THEN "move"
    ELSE IF large THEN "large" ELSE "stream"

\* the branch filter_ takes (lines 199-243)
Branch(save, uri, large) ==
    IF save
    THEN IF uri.scheme # "file" THEN "nofolder" ELSE "move"
    ELSE IF large THEN "large" ELSE "stream"

\* statAsync resolves; save: getSaveAfterFilteringFlag()
StatDone(save) ==
    /\ pc = "stat"
    /\ largeModeFlag' = LargeModeFlag(tmpSize)
    /\ saveFlag' = save
    /\ processed' = FALSE
    /\ caught' = "none"
    /\ LET branch == Branch(save, srcUri.val, largeModeFlag')
       IN  CASE branch = "nofolder" ->
                  /\ ShowWarning(MsgNoFolder)
                  /\ dstPath' = "tmp"
                  /\ calls' = calls \cup {"openTextDocument"}
                  /\ pc' = "open"
             [] branch = "move" ->
                  /\ dstPath' = "adjacent"
                  /\ calls' = calls \cup {"move"}
                  /\ pc' = "move"
                  /\ UNCHANGED <<shown, logged>>
             [] branch = "large" ->
                  /\ ShowWarning(MsgLarge)
                  /\ dstPath' = "tmp"
                  /\ calls' = calls \cup {"openTextDocument"}
                  /\ pc' = "open"
             [] branch = "stream" ->
                  /\ dstPath' = "tmp"
                  /\ calls' = calls \cup {"newUntitledFile"}
                  /\ pc' = "newfile"
                  /\ UNCHANGED <<shown, logged>>
    /\ UNCHANGED <<objVars, textDocuments, srcUri, usrChoice, callbacks, input,
                   tmpFile, tmpSize, adjFile, buffer, offset, declined, openedDoc,
                   matchVars, moreVars>>

\* statAsync rejects: so does filter_
StatFail ==
    /\ pc = "stat"
    /\ pc' = "rejected"
    /\ UNCHANGED <<objVars, hostVars, srcUri, usrChoice, callbacks, input, tmpFile,
                   tmpSize, adjFile, saveFlag, largeModeFlag, dstPath, processed,
                   caught, buffer, offset, declined, openedDoc,
                   matchVars, moreVars>>

(***************************************************************************)
(* moveAsync: the temp file now stands in the source's folder, or the move *)
(* failed and the temp file is where it was.                               *)
(***************************************************************************)
\* moveAsync and unlinkAsync of ./util: what they leave on disk
MoveAsync(ok, tmp) ==
    IF ok THEN [tmp |-> "removed", adj |-> TRUE] ELSE [tmp |-> tmp, adj |-> FALSE]

UnlinkAsync(ok, tmp) == IF ok THEN "removed" ELSE tmp

MoveDone ==
    /\ pc = "move"
    /\ tmpFile' = MoveAsync(TRUE, tmpFile).tmp
    /\ adjFile' = MoveAsync(TRUE, tmpFile).adj
    /\ calls' = calls \cup {"openTextDocument"}
    /\ pc' = "open"
    /\ UNCHANGED <<objVars, textDocuments, shown, logged, srcUri, usrChoice,
                   callbacks, input, tmpSize, saveFlag, largeModeFlag, dstPath,
                   processed, caught, buffer, offset, declined, openedDoc,
                   matchVars, moreVars>>

MoveFail ==
    /\ pc = "move"
    /\ tmpFile' = MoveAsync(FALSE, tmpFile).tmp
    /\ adjFile' = MoveAsync(FALSE, tmpFile).adj
    /\ ShowError(MsgMove)
    /\ dstPath' = "tmp"
    /\ calls' = calls \cup {"openTextDocument"}
    /\ pc' = "open"
    /\ UNCHANGED <<objVars, textDocuments, srcUri, usrChoice, callbacks, input,
                   tmpSize, saveFlag, largeModeFlag, processed, caught, buffer,
                   offset, declined, openedDoc,
                   matchVars, moreVars>>

(***************************************************************************)
(* 'workbench.action.files.newUntitledFile' has run.  Without an active    *)
(* editor filter_ throws 'Text Editor does not open'; with one, the read   *)
(* stream over the temp file is created and the loop waits for a chunk.    *)
(***************************************************************************)
NewFileDone(editorOpen) ==
    /\ pc = "newfile"
    /\ IF editorOpen
       THEN /\ buffer' = Some(0)
            /\ offset' = 0
            /\ pc' = "stream"
       ELSE /\ pc' = "rejected"
            /\ UNCHANGED <<buffer, offset>>
    /\ UNCHANGED <<objVars, hostVars, srcUri, usrChoice, callbacks, input, tmpFile,
                   tmpSize, adjFile, saveFlag, largeModeFlag, dstPath, processed,
                   caught, declined, openedDoc,
                   matchVars, moreVars>>

(***************************************************************************)
(* The loop over the temp file's chunks.  Each chunk is handed to          *)
(* editor.edit, which inserts it at the end of the document.  The promise  *)
(* of editor.edit resolves to true when the edit was applied and to false  *)
(* when the editor declined it (the document changed under the edit); it   *)
(* is rejected with an error named 'DISPOSED' when the editor is gone, or  *)
(* with another error.  The code awaits the promise and drops its value.   *)
(***************************************************************************)
EditOutcomes == {"applied", "declined", "disposed", "error"}

\* the size of the next chunk of the read stream
ChunkSize(size, off) == Min(HighWaterMark, size - off)

\* the test of the catch (lines 238-240): the error counts as processed
\* a variant: the name is compared with the wrong string
CatchProcessed_WrongName(errorName) == errorName = "Disposed"

CatchProcessed(errorName) == errorName = "DISPOSED"

\* an error named errorName is thrown inside the try: the catch, and what
\* follows it up to the next await or the end of filter_; made: the host
\* operations called before the error
Catch(errorName, made) ==
    /\ caught' = errorName
    /\ processed' = (processed \/ CatchProcessed(errorName))
    /\ IF processed'
       THEN /\ ShowInfo(MsgDone)
            /\ calls' = calls \cup made
            /\ pc' = "done"
       ELSE /\ UNCHANGED <<shown, logged>>
            /\ calls' = calls \cup made \cup {"openTextDocument"}
            /\ pc' = "open"

InsertChunk(outcome) ==
    /\ pc = "stream"
    /\ offset < tmpSize
    /\ outcome = "declined" => declined < MaxDeclined
    /\ offset' = offset + ChunkSize(tmpSize, offset)
    /\ buffer' = IF outcome = "applied"
                 THEN Some(buffer.val + ChunkSize(tmpSize, offset))
                 ELSE buffer
    /\ declined' = IF outcome = "declined" THEN declined + 1 ELSE declined
    /\ CASE outcome \in {"applied", "declined"} ->
              /\ calls' = calls \cup {"edit"}
              /\ UNCHANGED <<pc, processed, caught, shown, logged>>
         [] outcome = "disposed" -> Catch("DISPOSED", {"edit"})
         [] outcome = "error" -> Catch("Error", {"edit"})
    /\ UNCHANGED <<objVars, textDocuments, srcUri, usrChoice, callbacks, input,
                   tmpFile, tmpSize, adjFile, saveFlag, largeModeFlag, dstPath,
                   openedDoc, matchVars, moreVars>>

\* the read stream over the temp file fails
ReadFail ==
    /\ pc = "stream"
    /\ Catch("Error", {})
    /\ UNCHANGED <<objVars, textDocuments, srcUri, usrChoice, callbacks, input,
                   tmpFile, tmpSize, adjFile, saveFlag, largeModeFlag, dstPath,
                   buffer, offset, declined, openedDoc,
                   matchVars, moreVars>>

\* a variant: unlinkAsync is called inside the loop, after any chunk
StreamEnd_Early ==
    /\ pc = "stream"
    /\ offset > 0
    /\ calls' = calls \cup {"unlink"}
    /\ pc' = "unlink"
    /\ UNCHANGED <<objVars, textDocuments, shown, logged, srcUri, usrChoice,
                   callbacks, input, tmpFile, tmpSize, adjFile, saveFlag,
                   largeModeFlag, dstPath, processed, caught, buffer, offset,
                   declined, openedDoc,
                   matchVars, moreVars>>

\* the read stream ends: unlinkAsync is called
StreamEnd ==
    /\ pc = "stream"
    /\ offset = tmpSize
    /\ calls' = calls \cup {"unlink"}
    /\ pc' = "unlink"
    /\ UNCHANGED <<objVars, textDocuments, shown, logged, srcUri, usrChoice,
                   callbacks, input, tmpFile, tmpSize, adjFile, saveFlag,
                   largeModeFlag, dstPath, processed, caught, buffer, offset,
                   declined, openedDoc,
                   matchVars, moreVars>>

UnlinkDone ==
    /\ pc = "unlink"
    /\ tmpFile' = UnlinkAsync(TRUE, tmpFile)
    /\ processed' = TRUE
    /\ ShowInfo(MsgDone)
    /\ pc' = "done"
    /\ UNCHANGED <<objVars, textDocuments, calls, srcUri, usrChoice, callbacks, input,
                   tmpSize, adjFile, saveFlag, largeModeFlag, dstPath, caught, buffer,
                   offset, declined, openedDoc,
                   matchVars, moreVars>>

UnlinkFail ==
    /\ pc = "unlink"
    /\ tmpFile' = UnlinkAsync(FALSE, tmpFile)
    /\ Catch("Error", {})
    /\ UNCHANGED <<objVars, textDocuments, srcUri, usrChoice, callbacks, input,
                   tmpSize, adjFile, saveFlag, largeModeFlag, dstPath, buffer, offset,
                   declined, openedDoc,
                   matchVars, moreVars>>

(***************************************************************************)
(* `if (!processed)`: openTextDocument(dstPath) and showTextDocument, then *)
(* the notification; a rejection of either rejects filter_.                *)
(***************************************************************************)
OpenDone ==
    /\ pc = "open"
    /\ openedDoc' = dstPath
    /\ calls' = calls \cup {"showTextDocument"}
    /\ ShowInfo(MsgDone)
    /\ pc' = "done"
    /\ UNCHANGED <<objVars, textDocuments, srcUri, usrChoice, callbacks, input,
                   tmpFile, tmpSize, adjFile, saveFlag, largeModeFlag, dstPath,
                   processed, caught, buffer, offset, declined, matchVars, moreVars>>

OpenFail ==
    /\ pc = "open"
    /\ pc' = "rejected"
    /\ UNCHANGED <<objVars, hostVars, srcUri, usrChoice, callbacks, input, tmpFile,
                   tmpSize, adjFile, saveFlag, largeModeFlag, dstPath, processed,
                   caught, buffer, offset, declined, openedDoc,
                   matchVars, moreVars>>

(***************************************************************************)
(* One run.                                                                *)
(***************************************************************************)
\* the uri of the active editor's document: that of an opened document
ActiveEditors == {Undefined} \cup {Some(textDocuments[i].uri) : i \in 1..Len(textDocuments)}

Next ==
    \/ \E filePath \in {Undefined} \cup {Some(u) : u \in RunUris},
          activeTextEditor \in ActiveEditors : Filter(filePath, activeTextEditor)
    \/ \E choice \in RunChoices : Prepare(choice)
    \/ \E size \in Sizes : PipelineDone(size)
    \/ PipelineFail
    \/ \E save \in BOOLEAN : StatDone(save)
    \/ StatFail
    \/ MoveDone
    \/ MoveFail
    \/ \E editorOpen \in BOOLEAN : NewFileDone(editorOpen)
    \/ \E outcome \in EditOutcomes : InsertChunk(outcome)
    \/ ReadFail
    \/ StreamEnd
    \/ UnlinkDone
    \/ UnlinkFail
    \/ OpenDone
    \/ OpenFail

Spec == Init /\ [][Next]_vars

(***************************************************************************)
(* SpecSource: Filter.createInputStream for every source and every short   *)
(* list of opened documents (no two documents have the same uri).          *)
(***************************************************************************)
OpenDocLists ==
    {docs \in SeqsUpTo(Docs, MaxDocs) :
        \A i, j \in 1..Len(docs) : docs[i].uri = docs[j].uri => i = j}

InitSource ==
    /\ kind = "string"
    /\ _inputstring = Undefined
    /\ _regex = Undefined
    /\ history = <<>>
    /\ persisted = <<>>
    /\ textDocuments \in OpenDocLists
    /\ shown = <<>>
    /\ logged = <<"Temp path">>
    /\ calls = {}
    /\ pc = "source"
    /\ srcUri \in {Some(u) : u \in Uris}
    /\ RunFresh
    /\ source = <<>>
    /\ kept = NotMatched
    /\ MoreFresh

CreateInput ==
    /\ pc = "source"
    /\ input' = CreateInputStream(srcUri.val, textDocuments)
    /\ logged' = IF input'.from = "throw"
                 THEN Append(logged, "Unable to find open document for provided URI")
                 ELSE logged
    /\ pc' = "sourced"
    /\ UNCHANGED <<objVars, textDocuments, shown, calls, srcUri, usrChoice, callbacks,
                   tmpFile, tmpSize, adjFile, saveFlag, largeModeFlag, dstPath,
                   processed, caught, buffer, offset, declined, openedDoc,
                   matchVars, moreVars>>

NextSource == CreateInput

SpecSource == InitSource /\ [][NextSource]_vars

(***************************************************************************)
(* SpecMatch: a filter object whose prepare has accepted a pattern; the    *)
(* lines of a source are given to matchLine one by one, with notcontain /  *)
(* notmatch false and with it true.                                        *)
(***************************************************************************)
Lines == SeqsUpTo(LineAlphabet, MaxLineLen)

\* the patterns prepare accepts: not empty and, for a regex, no SyntaxError
StringPatterns == SeqsUpTo(LineAlphabet, MaxPatLen) \ {<<>>}

RegexPatterns == {p \in SeqsUpTo(PatternAlphabet, MaxPatLen) \ {<<>>} : ~RegExpThrows(p)}

InitMatch ==
    /\ kind \in {"string", "regex"}
    /\ IF kind = "string"
       THEN _inputstring \in {Some(p) : p \in StringPatterns} /\ _regex = Undefined
       ELSE _regex \in {Some(p) : p \in RegexPatterns} /\ _inputstring = Undefined
    /\ history = <<>>
    /\ persisted = <<>>
    /\ textDocuments = <<>>
    /\ shown = <<>>
    /\ logged = <<"Temp path">>
    /\ calls = {}
    /\ pc = "match"
    /\ srcUri = Undefined
    /\ RunFresh
    /\ source = <<>>
    /\ kept = NotMatched
    /\ MoreFresh

\* this.matchLine(line) of the filter object
MatchLine(negated, line) ==
    IF kind = "string"
    THEN MatchLineString(_inputstring, negated, line)
    ELSE MatchLineRegex(_regex, negated, line)

MatchNext(line) ==
    /\ pc = "match"
    /\ Len(source) < MaxLines
    /\ source' = Append(source, line)
    /\ kept' = [negated \in BOOLEAN |-> Append(kept[negated], MatchLine(negated, line))]
    /\ UNCHANGED <<objVars, hostVars, runVars, moreVars>>

NextMatch == \E line \in Lines : MatchNext(line)

SpecMatch == InitMatch /\ [][NextMatch]_vars

(***************************************************************************)
(* SpecPipe: the pipeline of Filter.process (lines 50-54) on every short   *)
(* source text.  The input stream delivers the characters of the source in *)
(* chunks of any size.  FilterStream (./util) cuts what it receives into   *)
(* lines at "\n" and holds the partial last line until the next chunk; it  *)
(* gives each line, without its terminator, to filterCallback and writes   *)
(* the lines for which the callback returns one, terminator reattached;    *)
(* at the end of the input it treats what it still holds as a last line    *)
(* without terminator.  The write stream appends to the temp file.         *)
(***************************************************************************)
NL == "\n"

TextAlphabet == LineAlphabet \cup {NL}

Texts == SeqsUpTo(TextAlphabet, MaxTextLen)

\* the patterns of SpecPipe: a character, and two characters that a chunk
\* boundary can part
PipeChoices == {<<"a">>, <<"a", "b">>}

InitPipe ==
    /\ kind \in {"string", "regex"}
    /\ IF kind = "string"
       THEN _inputstring \in {Some(p) : p \in PipeChoices} /\ _regex = Undefined
       ELSE _regex \in {Some(p) : p \in PipeChoices} /\ _inputstring = Undefined
    /\ history = <<>>
    /\ persisted = <<>>
    /\ textDocuments = <<>>
    /\ shown = <<>>
    /\ logged = <<"Temp path">>
    /\ calls = {"createWriteStream"}
    /\ pc = "pipeline"
    /\ srcUri = Some([scheme |-> "file", path |-> "/d/a.log"])
    /\ usrChoice = IF kind = "string" THEN _inputstring ELSE _regex
    /\ callbacks = <<TRUE>>
    /\ input = [from |-> "disk", doc |-> Undefined]
    /\ tmpFile = "partial"
    /\ tmpSize = 0
    /\ adjFile = FALSE
    /\ saveFlag = FALSE
    /\ largeModeFlag = FALSE
    /\ dstPath = "tmp"
    /\ processed = FALSE
    /\ caught = "none"
    /\ buffer = Undefined
    /\ offset = 0
    /\ declined = 0
    /\ openedDoc = "none"
    /\ source = <<>>
    /\ kept = NotMatched
    /\ notcontain \in BOOLEAN
    /\ HistFresh
    /\ srcText \in Texts
    /\ chunks = <<>>
    /\ leftover = <<>>
    /\ outText = <<>>
    /\ NameFresh
    /\ runs = <<>>

\* the callback filter_ gives to Filter: (line) => this.matchLine(line)
FilterCallback(line) == MatchLine(notcontain, line)

\* data cut at each "\n": the complete lines, without their terminator, and
\* the rest after the last "\n"
RECURSIVE SplitLines(_)
SplitLines(data) ==
    IF \A i \in 1..Len(data) : data[i] # NL
    THEN [lines |-> <<>>, rest |-> data]
    ELSE LET k == CHOOSE i \in 1..Len(data) :
                      data[i] = NL /\ \A j \in 1..(i - 1) : data[j] # NL
             r == SplitLines(SubSeq(data, k + 1, Len(data)))
         IN  [lines |-> <<SubSeq(data, 1, k - 1)>> \o r.lines, rest |-> r.rest]

\* what FilterStream writes for complete lines
RECURSIVE EmitLines(_)
EmitLines(lines) ==
    IF lines = <<>> THEN <<>>
    ELSE LET r == FilterCallback(Head(lines))
         IN  (IF IsDefined(r) THEN r.val \o <<NL>> ELSE <<>>) \o EmitLines(Tail(lines))

\* a variant: no partial line is held; what follows the last "\n" of a chunk
\* is treated as a line at once
FilterStreamTransform_NoLeftover(held, chunk) ==
    LET s == SplitLines(chunk)
        r == FilterCallback(s.rest)
    IN  [out |-> EmitLines(s.lines)
                 \o (IF s.rest # <<>> /\ IsDefined(r) THEN r.val ELSE <<>>),
         leftover |-> <<>>]

\* FilterStream on a chunk: what it writes and what it holds afterwards
FilterStreamTransform(held, chunk) ==
    LET s == SplitLines(held \o chunk)
    IN  [out |-> EmitLines(s.lines), leftover |-> s.rest]

\* FilterStream at the end of the input
FilterStreamFlush(held) ==
    IF held = <<>> THEN <<>>
    ELSE LET r == FilterCallback(held)
         IN  IF IsDefined(r) THEN r.val ELSE <<>>

\* the characters the input stream has delivered
RECURSIVE Concat(_)
Concat(seqs) == IF seqs = <<>> THEN <<>> ELSE Head(seqs) \o Concat(Tail(seqs))

\* the input stream delivers the next n characters as a chunk
ReadChunk(n) ==
    /\ pc = "pipeline"
    /\ Len(Concat(chunks)) + n <= Len(srcText)
    /\ LET pos == Len(Concat(chunks))
           chunk == SubSeq(srcText, pos + 1, pos + n)
           t == FilterStreamTransform(leftover, chunk)
       IN  /\ chunks' = Append(chunks, chunk)
           /\ leftover' = t.leftover
           /\ outText' = outText \o t.out
    /\ UNCHANGED <<objVars, hostVars, runVars, matchVars, notcontain, histVars,
                   srcText, nameVars, runs>>

\* the input stream ends: the promise of the pipeline resolves and filter_
\* goes on to statAsync
PipeEnd ==
    /\ pc = "pipeline"
    /\ Len(Concat(chunks)) = Len(srcText)
    /\ outText' = outText \o FilterStreamFlush(leftover)
    /\ leftover' = <<>>
    /\ tmpFile' = "complete"
    /\ tmpSize' = Len(outText')
    /\ calls' = calls \cup {"stat"}
    /\ pc' = "stat"
    /\ UNCHANGED <<objVars, textDocuments, shown, logged, srcUri, usrChoice,
                   callbacks, input, adjFile, saveFlag, largeModeFlag, dstPath,
                   processed, caught, buffer, offset, declined, openedDoc,
                   matchVars, notcontain, histVars, srcText, chunks, nameVars, runs>>

NextPipe ==
    \/ \E n \in 1..MaxTextLen : ReadChunk(n)
    \/ PipeEnd

SpecPipe == InitPipe /\ [][NextPipe]_vars

(***************************************************************************)
(* The path of the temp file (Filter.process, lines 37-48 and 56) and the  *)
(* path it is moved to (filter_, lines 203-206), on POSIX paths.  A path   *)
(* is a sequence of characters; 'filterline' and 'file' stand in it as one *)
(* element each.                                                           *)
(***************************************************************************)
\* path.sep
Sep == "/"

\* os.tmpdir()
TmpDir == <<Sep, "t">>

\* Filter.TAIL
TAIL == "filterline"

\* String.prototype.split(c)
RECURSIVE SplitOn(_, _)
SplitOn(s, c) ==
    IF \A i \in 1..Len(s) : s[i] # c THEN <<s>>
    ELSE LET k == CHOOSE i \in 1..Len(s) : s[i] = c /\ \A j \in 1..(i - 1) : s[j] # c
         IN  <<SubSeq(s, 1, k - 1)>> \o SplitOn(SubSeq(s, k + 1, Len(s)), c)

\* Array.prototype.join(c)
RECURSIVE JoinWith(_, _)
JoinWith(parts, c) ==
    IF parts = <<>> THEN <<>>
    ELSE IF Len(parts) = 1 THEN parts[1]
    ELSE parts[1] \o <<c>> \o JoinWith(Tail(parts), c)

\* .slice(-1)[0] and .slice(0, -1) of an array that is not empty
LastOf(parts) == parts[Len(parts)]

ButLast(parts) == SubSeq(parts, 1, Len(parts) - 1)

\* path.extname of a path that does not end with the separator: from the last
\* "." of the last segment on; empty without a ".", when that "." is the
\* segment's first character, and for the segment ".."
ExtName(p) ==
    LET seg == LastOf(SplitOn(p, Sep))
        dots == {i \in 1..Len(seg) : seg[i] = "."}
    IN  IF dots = {} THEN <<>>
        ELSE LET startDot == CHOOSE i \in dots : \A j \in dots : j <= i
             IN  IF startDot = 1 THEN <<>>
                 ELSE IF startDot = 2 /\ Len(seg) = 2 /\ seg[1] = "." THEN <<>>
                 ELSE SubSeq(seg, startDot, Len(seg))

\* Number.prototype.toString of the clock's milliseconds
Digits == <<"0", "1", "2", "3", "4", "5", "6", "7", "8", "9">>

RECURSIVE TimestampString(_)
TimestampString(t) ==
    IF t < 10 THEN <<Digits[t + 1]>>
    ELSE TimestampString(t \div 10) \o <<Digits[(t % 10) + 1]>>

\* Uri.fsPath of a uri without authority, on POSIX: the path
FsPath(uri) == uri.path

\* Uri.parse: an optional scheme up to ":", then the path up to the first "?"
\* or "#" (the query and the fragment are no part of the path); without a
\* scheme the uri gets the scheme 'file'
UriParse(s) ==
    LET hasScheme == Len(s) >= 2 /\ s[2] = ":" /\ s[1] \notin {Sep, "?", "#", ":"}
        rest == IF hasScheme THEN SubSeq(s, 3, Len(s)) ELSE s
        cuts == {i \in 1..Len(rest) : rest[i] \in {"?", "#"}}
    IN  [scheme |-> IF hasScheme THEN s[1] ELSE "file",
         path |-> IF cuts = {} THEN rest
                  ELSE SubSeq(rest, 1, (CHOOSE i \in cuts : \A j \in cuts : i <= j) - 1)]

\* outPath of Filter.process (lines 37-48)
OutPath(fromUri, timestamp) ==
    LET ext == ExtName(fromUri.path)
        outBase == IF fromUri.scheme # "file"
                   THEN fromUri.path
                   ELSE JoinWith(ButLast(SplitOn(LastOf(SplitOn(FsPath(fromUri), Sep)), ".")), ".")
        ext2 == IF fromUri.scheme # "file" /\ ext = <<>> THEN <<".", "t", "x", "t">> ELSE ext
    IN  TmpDir \o <<Sep>> \o outBase \o <<".", TAIL, "-">> \o TimestampString(timestamp) \o ext2

\* the Uri Filter.process returns (line 56)
ProcessResult(path) == UriParse(<<"file", ":">> \o path)

\* dstPath of filter_ when the output is saved next to the source (203-204)
DstPath(uri, tmp) ==
    LET dstBase == LastOf(SplitOn(FsPath(tmp), Sep))
    IN  UriParse(JoinWith(ButLast(SplitOn(FsPath(uri), Sep)), Sep) \o <<Sep>> \o dstBase)

(***************************************************************************)
(* SpecRuns: two runs of filter() on one filter object.  A run waits in    *)
(* the pick, then prepare takes the accepted pattern into the object's     *)
(* field and filter_ starts Filter.process, which reads the clock, names   *)
(* the temp file and starts the pipeline; the pipeline gives the lines of  *)
(* the source to filterCallback one by one, and the steps of the two runs  *)
(* interleave at every await.  Showing a pick hides the pick that is open, *)
(* whose promise then never resolves (lines 150-151).  notcontain /        *)
(* notmatch is a public field that the commands assign.                    *)
(***************************************************************************)
Runs == {1, 2}

\* two files of the same name in two folders
RunSources == {[scheme |-> "file", path |-> <<Sep, "d", Sep, "a", ".", "l">>],
               [scheme |-> "file", path |-> <<Sep, "e", Sep, "a", ".", "l">>]}

\* the patterns accepted in the picks, and the lines of every source
RunPatterns == {<<"a">>, <<"b">>}

RunLines == <<<<"a">>, <<"b">>>>

\* the readings of the clock
Clocks == StartClock..(StartClock + MaxClock)

IdleRun ==
    [pc |-> "idle", uri |-> Undefined, choice |-> Undefined, negated |-> FALSE,
     stamp |-> Undefined, path |-> Undefined, todo |-> <<>>, tested |-> <<>>,
     out |-> <<>>]

InitRuns ==
    /\ kind \in {"string", "regex"}
    /\ _inputstring = Undefined
    /\ _regex = Undefined
    /\ history = <<>>
    /\ persisted = <<>>
    /\ textDocuments = <<>>
    /\ shown = <<>>
    /\ logged = <<"Temp path">>
    /\ calls = {}
    /\ pc = "runs"
    /\ srcUri = Undefined
    /\ RunFresh
    /\ source = <<>>
    /\ kept = NotMatched
    /\ notcontain = FALSE
    /\ HistFresh
    /\ PipeFresh
    /\ now = StartClock
    /\ outPath = Undefined
    /\ tmpPath = Undefined
    /\ movedTo = Undefined
    /\ runs = [r \in Runs |-> IdleRun]

\* filter(filePath) of run r: the pick is shown, which hides an open pick
RunFilter(r, filePath) ==
    /\ runs[r].pc = "idle"
    /\ \A q \in Runs : q < r => runs[q].pc # "idle"
    /\ runs' = [q \in Runs |->
                  IF q = r THEN [runs[q] EXCEPT !.pc = "pick", !.uri = Some(filePath)]
                  ELSE IF runs[q].pc = "pick" THEN [runs[q] EXCEPT !.pc = "hidden"]
                  ELSE runs[q]]
    /\ UNCHANGED <<objVars, hostVars, runVars, matchVars, notcontain, histVars,
                   pipeVars, nameVars>>

\* Filter.process of run r up to the await of the pipeline
StartProcess(run, timestamp, negation) ==
    [run EXCEPT !.pc = "pipeline",
                !.negated = negation,
                !.stamp = Some(timestamp),
                !.path = Some(OutPath(run.uri.val, timestamp)),
                !.todo = RunLines]

\* the user accepts choice in the pick of run r: prepare.  The string filter
\* does not await addToHistory and goes on to callback(true), filter_ and
\* Filter.process; the regex filter awaits addToHistory first.
RunAccept(r, choice) ==
    /\ runs[r].pc = "pick"
    /\ LET h == AddToHistory(history, HistorySizeDefault, choice)
       IN  /\ history' = h.list
           /\ persisted' = IF h.updated THEN h.list ELSE persisted
    /\ IF kind = "string"
       THEN /\ _inputstring' = Some(choice)
            /\ runs' = [runs EXCEPT ![r] =
                          StartProcess([runs[r] EXCEPT !.choice = Some(choice)],
                                       now, notcontain)]
            /\ UNCHANGED _regex
       ELSE /\ _regex' = Some(choice)
            /\ runs' = [runs EXCEPT ![r] = [@ EXCEPT !.pc = "history",
                                                     !.choice = Some(choice)]]
            /\ UNCHANGED _inputstring
    /\ UNCHANGED <<kind, hostVars, runVars, matchVars, notcontain, histVars,
                   pipeVars, nameVars>>

\* the regex filter's prepare after the await of addToHistory
RunProcess(r) ==
    /\ runs[r].pc = "history"
    /\ runs' = [runs EXCEPT ![r] = StartProcess(@, now, notcontain)]
    /\ UNCHANGED <<objVars, hostVars, runVars, matchVars, notcontain, histVars,
                   pipeVars, nameVars>>

\* the pipeline of run r gives the next line to filterCallback
RunLine(r) ==
    /\ runs[r].pc = "pipeline"
    /\ runs[r].todo # <<>>
    /\ LET line == Head(runs[r].todo)
           res == FilterCallback(line)
       IN  runs' = [runs EXCEPT ![r] =
                      [@ EXCEPT !.todo = Tail(@),
                                !.tested = Append(@, line),
                                !.out = IF IsDefined(res) THEN Append(@, res.val) ELSE @]]
    /\ UNCHANGED <<objVars, hostVars, runVars, matchVars, notcontain, histVars,
                   pipeVars, nameVars>>

\* the pipeline of run r ends
RunPipeEnd(r) ==
    /\ runs[r].pc = "pipeline"
    /\ runs[r].todo = <<>>
    /\ runs' = [runs EXCEPT ![r] = [@ EXCEPT !.pc = "stat"]]
    /\ UNCHANGED <<objVars, hostVars, runVars, matchVars, notcontain, histVars,
                   pipeVars, nameVars>>

\* a command assigns notcontain / notmatch
SetNotContain(value) ==
    /\ notcontain # value
    /\ notcontain' = value
    /\ UNCHANGED <<objVars, hostVars, runVars, matchVars, histVars, pipeVars,
                   nameVars, runs>>

\* the clock of the system: it advances, or the system sets it
ClockMoves(t) ==
    /\ now # t
    /\ now' = t
    /\ UNCHANGED <<objVars, hostVars, runVars, matchVars, notcontain, histVars,
                   pipeVars, outPath, tmpPath, movedTo, runs>>

NextRuns ==
    \/ \E r \in Runs, filePath \in RunSources : RunFilter(r, filePath)
    \/ \E r \in Runs, choice \in RunPatterns : RunAccept(r, choice)
    \/ \E r \in Runs : RunProcess(r)
    \/ \E r \in Runs : RunLine(r)
    \/ \E r \in Runs : RunPipeEnd(r)
    \/ \E value \in BOOLEAN : SetNotContain(value)
    \/ \E t \in Clocks : ClockMoves(t)

SpecRuns == InitRuns /\ [][NextRuns]_vars

(***************************************************************************)
(* SpecName: the names of a run's files, for every short file name.        *)
(* Filter.process computes outPath and writes the temp file there; it      *)
(* returns Uri.parse('file:' + outPath), and filter_ calls statAsync on    *)
(* the fsPath of that uri; with saveAfterFiltering and a source on disk it *)
(* moves that file into the source's folder.                               *)
(***************************************************************************)
\* the characters of a file name: a letter, the dot, and a character that is
\* legal in a file name and has a meaning in a uri.
NameAlphabet == {"a", ".", "#"}

\* "." and ".." name no file
Names == SeqsUpTo(NameAlphabet, MaxNameLen) \ {<<>>, <<".">>, <<".", ".">>}

\* a file /d/<name> on disk, or a document without a file whose path is <name>
NameUris ==
    {[scheme |-> "file", path |-> <<Sep, "d", Sep>> \o n] : n \in Names}
    \cup {[scheme |-> "untitled", path |-> n] : n \in Names}

InitName ==
    /\ kind = "string"
    /\ _inputstring = Some(<<"a">>)
    /\ _regex = Undefined
    /\ history = <<>>
    /\ persisted = <<>>
    /\ textDocuments = <<>>
    /\ shown = <<>>
    /\ logged = <<"Temp path">>
    /\ calls = {}
    /\ pc = "process"
    /\ srcUri \in {Some(u) : u \in NameUris}
    /\ RunFresh
    /\ source = <<>>
    /\ kept = NotMatched
    /\ notcontain = FALSE
    /\ HistFresh
    /\ PipeFresh
    /\ now \in Clocks
    /\ outPath = Undefined
    /\ tmpPath = Undefined
    /\ movedTo = Undefined
    /\ runs = <<>>

\* Filter.process: the pipeline writes the temp file at outPath
Process ==
    /\ pc = "process"
    /\ outPath' = Some(OutPath(srcUri.val, now))
    /\ tmpPath' = Some(ProcessResult(outPath'.val))
    /\ tmpFile' = "complete"
    /\ calls' = calls \cup {"createWriteStream", "stat"}
    /\ pc' = "stat"
    /\ UNCHANGED <<objVars, textDocuments, shown, logged, srcUri, usrChoice,
                   callbacks, input, tmpSize, adjFile, saveFlag, largeModeFlag,
                   dstPath, processed, caught, buffer, offset, declined, openedDoc,
                   matchVars, notcontain, histVars, pipeVars, now, movedTo, runs>>

\* statAsync(tmpPath.fsPath): it rejects when no file has that path; else
\* filter_ takes its branch, of which only the move is followed here
StatTmp(save) ==
    /\ pc = "stat"
    /\ IF FsPath(tmpPath.val) # outPath.val
       THEN /\ pc' = "rejected"
            /\ UNCHANGED <<saveFlag, dstPath, calls>>
       ELSE /\ saveFlag' = save
            /\ IF Branch(save, srcUri.val, FALSE) = "move"
               THEN /\ dstPath' = "adjacent"
                    /\ calls' = calls \cup {"move"}
                    /\ pc' = "move"
               ELSE /\ pc' = "placing"
                    /\ UNCHANGED <<dstPath, calls>>
    /\ UNCHANGED <<objVars, textDocuments, shown, logged, srcUri, usrChoice,
                   callbacks, input, tmpFile, tmpSize, adjFile, largeModeFlag,
                   processed, caught, buffer, offset, declined, openedDoc,
                   matchVars, moreVars>>

\* moveAsync(tmpPath.fsPath, dstPath.fsPath)
MoveTmp(ok) ==
    /\ pc = "move"
    /\ tmpFile' = MoveAsync(ok, tmpFile).tmp
    /\ adjFile' = MoveAsync(ok, tmpFile).adj
    /\ movedTo' = IF ok THEN Some(FsPath(DstPath(srcUri.val, tmpPath.val))) ELSE movedTo
    /\ dstPath' = IF ok THEN dstPath ELSE "tmp"
    /\ IF ok THEN UNCHANGED <<shown, logged>> ELSE ShowError(MsgMove)
    /\ calls' = calls \cup {"openTextDocument"}
    /\ pc' = "open"
    /\ UNCHANGED <<objVars, textDocuments, srcUri, usrChoice, callbacks, input,
                   tmpSize, saveFlag, largeModeFlag, processed, caught, buffer,
                   offset, declined, openedDoc, matchVars, notcontain, histVars,
                   pipeVars, now, outPath, tmpPath, runs>>

NextName ==
    \/ Process
    \/ \E save \in BOOLEAN : StatTmp(save)
    \/ \E ok \in BOOLEAN : MoveTmp(ok)

SpecName == InitName /\ [][NextName]_vars

(***************************************************************************)
(* SpecHistory: the history of one filter class (its HIST_KEY) over the    *)
(* sessions of the extension.  prepare calls addToHistory with each        *)
(* pattern it accepts; globalState keeps what the last update gave it; a   *)
(* new session's constructor loads the history from globalState.           *)
(***************************************************************************)
\* the patterns that are accepted
HistPatterns == {<<"a">>, <<"b">>, <<"a", "b">>, <<"b", "a">>}

\* the values of the setting filter-line.historySize (package.json: 1 to 50)
HistorySizes == 1..MaxHistSize

InitHistory ==
    /\ kind \in {"string", "regex"}
    /\ _inputstring = Undefined
    /\ _regex = Undefined
    /\ history = <<>>
    /\ persisted = <<>>
    /\ textDocuments = <<>>
    /\ shown = <<>>
    /\ logged = <<"Temp path">>
    /\ calls = {}
    /\ pc = "history"
    /\ srcUri = Undefined
    /\ RunFresh
    /\ source = <<>>
    /\ kept = NotMatched
    /\ notcontain = FALSE
    /\ historySize \in HistorySizes
    /\ lastAdd = Undefined
    /\ PipeFresh
    /\ NameFresh
    /\ runs = <<>>

\* addToHistory(HIST_KEY, newEl); getHistoryMaxSize() returns the setting
AddCall(newEl) ==
    /\ pc = "history"
    /\ LET r == AddToHistory(history, historySize, newEl)
       IN  /\ history' = r.list
           /\ persisted' = IF r.updated THEN r.list ELSE persisted
    /\ lastAdd' = Some([before |-> history, newEl |-> newEl])
    /\ UNCHANGED <<kind, _inputstring, _regex, hostVars, runVars, matchVars,
                   notcontain, historySize, pipeVars, nameVars, runs>>

\* the extension host starts again: the constructor of the filter object
\* reads the history from globalState
Restart ==
    /\ pc = "history"
    /\ history' = persisted
    /\ lastAdd' = Undefined
    /\ UNCHANGED <<kind, _inputstring, _regex, persisted, hostVars, runVars,
                   matchVars, notcontain, historySize, pipeVars, nameVars, runs>>

NextHistory ==
    \/ \E newEl \in HistPatterns : AddCall(newEl)
    \/ Restart

SpecHistory == InitHistory /\ [][NextHistory]_vars

(***************************************************************************)
(* What the properties below speak about.                                  *)
(***************************************************************************)
Shown(level) == \E i \in 1..Len(shown) : shown[i][1] = level

ShownMsg(level, text) == \E i \in 1..Len(shown) : shown[i] = <<level, text>>

\* the pipeline has written the whole temp file
TempWritten == tmpFile \in {"complete", "removed"}

\* filter_ has chosen its branch of the placement
Placing == calls \cap {"move", "newUntitledFile", "openTextDocument"} # {}

\* moveAsync was called and failed
MoveFailed == "move" \in calls /\ pc # "move" /\ ~adjFile

\* the untitled document holds the whole filtered output
BufferComplete == IsDefined(buffer) /\ buffer.val = tmpSize

\* the run is over: filter_ has returned or its promise is rejected
RunOver == pc \in {"done", "rejected"}

\* line contains p (as a substring)
Contains(line, p) ==
    \E i \in 0..(Len(line) - Len(p)) : SubSeq(line, i + 1, i + Len(p)) = p

(***************************************************************************)
(* C1: with saveAfterFiltering false, an output of more than 30 MiB is     *)
(* never streamed: no untitled document is made, no chunk is inserted, the *)
(* temp file is not deleted and is the file that is opened; an output of   *)
(* 30 MiB or less takes the streaming branch.                              *)
(***************************************************************************)
C1_LargeOutputRetained ==
    (Placing /\ ~saveFlag) =>
        IF tmpSize > 30 * 1024 * 1024
        THEN /\ calls \cap {"newUntitledFile", "edit", "unlink"} = {}
             /\ buffer = Undefined
             /\ tmpFile = "complete"
             /\ dstPath = "tmp"
             /\ openedDoc \in {"none", "tmp"}
             /\ pc = "done" => openedDoc = "tmp"
        ELSE "newUntitledFile" \in calls

C1_Witness ==
    /\ pc = "done"
    /\ ~saveFlag
    /\ tmpSize = 30 * 1024 * 1024 + 1
    /\ tmpFile = "complete"
    /\ openedDoc = "tmp"

(***************************************************************************)
(* C2: when saveAfterFiltering is true, the source is a file and the move  *)
(* fails, the temp file stays the final location, a warning and no error   *)
(* is shown, and a run that completes has opened the temp file and shown   *)
(* the completion notification.                                            *)
(***************************************************************************)
C2_MoveFailureWarns ==
    (MoveFailed /\ saveFlag /\ srcUri.val.scheme = "file") =>
        /\ dstPath = "tmp"
        /\ tmpFile = "complete"
        /\ Shown("warning")
        /\ ~Shown("error")
        /\ pc = "done" => openedDoc = "tmp" /\ ShownMsg("info", MsgDone)

(***************************************************************************)
(* C3: once the pipeline has written the temp file, the whole filtered     *)
(* output is in the temp file, in the file moved next to the source or in  *)
(* the untitled document, whatever fails during the placement.             *)
(***************************************************************************)
C3_ContentNeverLost ==
    TempWritten => tmpFile = "complete" \/ adjFile \/ BufferComplete

(***************************************************************************)
(* C4: for a source with scheme 'file', createInputStream reads the        *)
(* in-memory document if and only if a document opened for that source is  *)
(* dirty, and then it is that document; otherwise it reads the disk.       *)
(***************************************************************************)
C4_DirtyDocumentWins ==
    (pc = "sourced" /\ srcUri.val.scheme = "file") =>
        LET dirtyOpen == \E i \in 1..Len(textDocuments) :
                            /\ textDocuments[i].uri = srcUri.val
                            /\ textDocuments[i].isDirty
        IN  /\ input.from = "doc" <=> dirtyOpen
            /\ input.from = "doc" => input.doc.val.uri = srcUri.val
            /\ ~dirtyOpen => input.from = "disk"

(***************************************************************************)
(* C5: when the user accepts an invalid regular expression, prepare calls  *)
(* the callback once, with false; filter_ is not entered: no input stream, *)
(* no temp file, no host operation; and the error is shown.                *)
(***************************************************************************)
C5_InvalidRegexAborts ==
    (kind = "regex" /\ IsDefined(usrChoice) /\ usrChoice.val \in {<<"(">>, <<"*">>}) =>
        /\ callbacks = <<FALSE>>
        /\ pc = "ended"
        /\ _regex = Undefined
        /\ input = NoInput
        /\ tmpFile = "absent"
        /\ calls = {}
        /\ shown = <<<<"error", MsgRegex>>>>

C5_Witness ==
    /\ kind = "regex"
    /\ usrChoice = Some(<<"(">>)
    /\ pc = "ended"
    /\ callbacks = <<FALSE>>

(***************************************************************************)
(* C6: every run that has reached the placement of the temp file ends with *)
(* the notification 'Filtering completed', whatever step of the placement  *)
(* fails.                                                                  *)
(***************************************************************************)
C6_AlwaysNotifies ==
    (Placing /\ RunOver) => ShownMsg("info", MsgDone)

(***************************************************************************)
(* C7: a run that fails before the temp file is completely written shows   *)
(* an error message to the user.                                           *)
(***************************************************************************)
C7_EarlyFailureIsShown ==
    (pc = "rejected" /\ ~TempWritten) => Shown("error")

(***************************************************************************)
(* C8: when a chunk insertion raises 'DISPOSED', the run ends there as a   *)
(* success: no further chunk is inserted (nothing more happens), the temp  *)
(* file is neither deleted nor opened, no error or warning is shown, and   *)
(* the last message is the completion notification.                        *)
(***************************************************************************)
C8_TeardownIsBenign ==
    caught = "DISPOSED" =>
        /\ pc = "done"
        /\ processed
        /\ tmpFile = "complete"
        /\ calls \cap {"unlink", "openTextDocument", "showTextDocument"} = {}
        /\ openedDoc = "none"
        /\ ~Shown("error")
        /\ ~Shown("warning")
        /\ shown[Len(shown)] = <<"info", MsgDone>>
        /\ buffer.val < offset
        /\ ~ENABLED Next

C8_Witness ==
    /\ caught = "DISPOSED"
    /\ buffer.val > 0
    /\ offset < tmpSize

(***************************************************************************)
(* C9, as stated: in a run that completes, the temp file is removed if and *)
(* only if it was moved or every chunk is in the untitled document; it is  *)
(* never removed before that; and it stays only when the output is large,  *)
(* the source has no folder, or the move failed.                           *)
(***************************************************************************)
RetainedByPolicy ==
    \/ ~saveFlag /\ tmpSize > 30 * 1024 * 1024
    \/ saveFlag /\ srcUri.val.scheme # "file"
    \/ MoveFailed

C10_PolarityIsComplement ==
    \A i \in 1..Len(source) :
        LET plain == kept[FALSE][i]
            negated == kept[TRUE][i]
        IN  /\ IsDefined(plain) # IsDefined(negated)
            /\ IsDefined(plain) => plain.val = source[i]
            /\ IsDefined(negated) => negated.val = source[i]
            /\ kind = "string" =>
                 (IsDefined(plain) <=> Contains(source[i], _inputstring.val))

C10_Witness ==
    /\ kind = "string"
    /\ Len(source) = 2
    /\ IsDefined(kept[FALSE][1])
    /\ IsDefined(kept[TRUE][2])


(***************************************************************************)
(* C11: for every source text and every way of cutting it into chunks, the *)
(* temp file holds, once the pipeline has ended, exactly the lines of the  *)
(* source that satisfy the predicate, each with the terminator it had, in  *)
(* the order of the source; and what is written before the end is a prefix *)
(* of that.  The lines and the predicate are taken from the whole text,    *)
(* not from the chunks.                                                    *)
(***************************************************************************)
\* the predicate of the run on the content of a line
Predicate(content) ==
    IF kind = "string"
    THEN Contains(content, _inputstring.val) # notcontain
    ELSE RegExpMatches(_regex.val, content) # notcontain

\* where the lines of t end: at each "\n" and, for a last line without
\* terminator, after the last character
LineEnds(t) ==
    {i \in 1..Len(t) : t[i] = NL}
    \cup (IF t # <<>> /\ t[Len(t)] # NL THEN {Len(t) + 1} ELSE {})

\* where the line that ends at e starts
LineStart(t, e) ==
    LET before == {i \in LineEnds(t) : i < e}
    IN  IF before = {} THEN 1 ELSE (CHOOSE i \in before : \A j \in before : j <= i) + 1

\* the lines of t that end after position s and satisfy the predicate
RECURSIVE FilteredFrom(_, _)
FilteredFrom(t, s) ==
    LET ends == {i \in LineEnds(t) : i > s}
    IN  IF ends = {} THEN <<>>
        ELSE LET e == CHOOSE i \in ends : \A j \in ends : i <= j
                 first == LineStart(t, e)
             IN  (IF Predicate(SubSeq(t, first, e - 1))
                  THEN SubSeq(t, first, Min(e, Len(t)))
                  ELSE <<>>)
                 \o FilteredFrom(t, e)

C11_ChunkingIsInvisible ==
    pc \in {"pipeline", "stat"} =>
        LET expected == FilteredFrom(srcText, 0)
        IN  /\ Len(outText) <= Len(expected)
            /\ outText = SubSeq(expected, 1, Len(outText))
            /\ pc = "stat" => outText = expected

\* a line is parted by a chunk boundary; a line is dropped and a line is kept
C11_Witness ==
    /\ pc = "stat"
    /\ kind = "string"
    /\ _inputstring = Some(<<"a", "b">>)
    /\ ~notcontain
    /\ srcText = <<"b", NL, "a", "b">>
    /\ chunks = <<<<"b", NL, "a">>, <<"b">>>>
    /\ outText = <<"a", "b">>

(***************************************************************************)
(* C12: two runs whose pipelines are in progress at the same time write to *)
(* different temp files: their paths differ, also for two runs on the same *)
(* source and for two runs on sources of the same file name.               *)
(***************************************************************************)
C12_TempPathsDistinct ==
    \A r, q \in DOMAIN runs :
        (r # q /\ runs[r].pc = "pipeline" /\ runs[q].pc = "pipeline") =>
            runs[r].path # runs[q].path

(***************************************************************************)
(* C13: what a run has written is what the pattern and the polarity the    *)
(* run started with keep of the lines it has tested, also when prepare     *)
(* accepts another pattern for a later run on the same filter object, or   *)
(* notcontain / notmatch is assigned, while the run is streaming.          *)
(***************************************************************************)
\* the lines that the pattern and the polarity of the run keep
RECURSIVE KeptByOwn(_, _)
KeptByOwn(run, lines) ==
    IF lines = <<>> THEN <<>>
    ELSE LET line == Head(lines)
             hit == IF kind = "string"
                    THEN Contains(line, run.choice.val)
                    ELSE RegExpMatches(run.choice.val, line)
         IN  (IF hit # run.negated THEN <<line>> ELSE <<>>) \o KeptByOwn(run, Tail(lines))

C13_RunsAreIsolated ==
    \A r \in DOMAIN runs :
        runs[r].pc \in {"pipeline", "stat"} =>
            runs[r].out = KeptByOwn(runs[r], runs[r].tested)

(***************************************************************************)
(* C14: for a source on disk the temp file is named                        *)
(* <base>.filterline-<millis><ext>, where <ext> is the extension of the    *)
(* source's file name (empty if it has none) and <base> is the file name   *)
(* without that extension; and a temp file that was moved next to the      *)
(* source stands in the source's folder under that same name.              *)
(***************************************************************************)
\* the file name of a path: what follows its last separator
FileName(p) ==
    LET seps == {i \in 1..Len(p) : p[i] = Sep}
    IN  IF seps = {} THEN p
        ELSE SubSeq(p, (CHOOSE i \in seps : \A j \in seps : j <= i) + 1, Len(p))

\* the folder of a path: what precedes its last separator
Folder(p) == SubSeq(p, 1, Len(p) - Len(FileName(p)) - 1)

\* the name that the naming convention gives the temp file of the source at p
ClaimedName(p, millis) ==
    LET name == FileName(p)
        ext == ExtName(name)
        base == SubSeq(name, 1, Len(name) - Len(ext))
    IN  base \o <<".", "filterline", "-">> \o TimestampString(millis) \o ext

C14_TempFileName ==
    (IsDefined(outPath) /\ srcUri.val.scheme = "file") =>
        LET claimed == ClaimedName(srcUri.val.path, now)
        IN  /\ outPath.val = TmpDir \o <<Sep>> \o claimed
            /\ IsDefined(movedTo) =>
                 movedTo.val = Folder(srcUri.val.path) \o <<Sep>> \o claimed

(***************************************************************************)
(* C15: with saveAfterFiltering true and a source whose scheme is not      *)
(* 'file', whatever the size of the output: no move is attempted, no       *)
(* untitled document is made and nothing is inserted or deleted; the temp  *)
(* file stays and is the final location; the warning is shown; the temp    *)
(* file is handed to openTextDocument, and it is the document shown by a   *)
(* run that completes.                                                     *)
(***************************************************************************)
C15_SaveWithoutFolder ==
    (Placing /\ saveFlag /\ srcUri.val.scheme # "file") =>
        /\ calls \cap {"move", "newUntitledFile", "edit", "unlink"} = {}
        /\ buffer = Undefined
        /\ tmpFile = "complete"
        /\ ~adjFile
        /\ dstPath = "tmp"
        /\ ShownMsg("warning", MsgNoFolder)
        /\ "openTextDocument" \in calls
        /\ openedDoc \in {"none", "tmp"}
        /\ pc = "done" => openedDoc = "tmp"

C15_Witness ==
    /\ pc = "done"
    /\ saveFlag
    /\ srcUri.val.scheme = "untitled"
    /\ tmpSize = 30 * 1024 * 1024 + 1
    /\ openedDoc = "tmp"
    /\ shown = <<<<"warning", MsgNoFolder>>, <<"info", MsgDone>>>>

(***************************************************************************)
(* C16: a run that fails before the temp file is completely written (the   *)
(* source document is not found, or the pipeline fails) stops there: no    *)
(* stat, no move, no untitled document, no insertion, no deletion, no      *)
(* document opened, no completion notification, and no step of the run is  *)
(* taken afterwards.                                                       *)
(***************************************************************************)
C16_EarlyFailureStops ==
    (pc = "rejected" /\ ~TempWritten) =>
        /\ calls \subseteq {"createWriteStream"}
        /\ input.from = "throw" => calls = {}
        /\ buffer = Undefined
        /\ openedDoc = "none"
        /\ ~adjFile
        /\ ~ShownMsg("info", MsgDone)
        /\ ~ENABLED Next

C16_Witness ==
    /\ pc = "rejected"
    /\ tmpFile = "partial"
    /\ input.from = "disk"
    /\ calls = {"createWriteStream"}

(***************************************************************************)
(* C17: when an insertion, a read of the temp file or its deletion raises  *)
(* an error that is not named 'DISPOSED', the temp file is kept, a warning *)
(* is shown to the user, and the run goes on to open the temp file and to  *)
(* the completion notification.                                            *)
(***************************************************************************)
C17_StreamFailureWarns ==
    caught = "Error" =>
        /\ tmpFile = "complete"
        /\ Shown("warning")
        /\ dstPath = "tmp"
        /\ "openTextDocument" \in calls
        /\ pc = "done" => openedDoc = "tmp" /\ ShownMsg("info", MsgDone)

(***************************************************************************)
(* C18: with the history size N, the history of a key never holds more     *)
(* than N patterns, in memory and in globalState, after any sequence of    *)
(* addToHistory calls.                                                     *)
(***************************************************************************)
C18_HistoryBounded ==
    /\ Len(history) <= historySize
    /\ Len(persisted) <= historySize

(***************************************************************************)
(* C19: after addToHistory(key, p) on a history without duplicates, p is   *)
(* the first pattern of the history and occurs once, no pattern occurs     *)
(* twice, and the other patterns were in the history before the call and   *)
(* stand in the same order as before.                                      *)
(***************************************************************************)
NoDuplicates(list) == \A i, j \in 1..Len(list) : list[i] = list[j] => i = j

\* where el stands in a list that holds it
PlaceOf(list, el) == CHOOSE k \in 1..Len(list) : list[k] = el

C19_MostRecentFirst ==
    (IsDefined(lastAdd) /\ NoDuplicates(lastAdd.val.before)) =>
        LET before == lastAdd.val.before
            p == lastAdd.val.newEl
        IN  /\ Len(history) >= 1
            /\ history[1] = p
            /\ NoDuplicates(history)
            /\ \A i \in 2..Len(history) :
                 \E k \in 1..Len(before) : before[k] = history[i]
            /\ \A i, j \in 2..Len(history) :
                 i < j => PlaceOf(before, history[i]) < PlaceOf(before, history[j])

\* a pattern that was second is accepted again
C19_Witness ==
    /\ IsDefined(lastAdd)
    /\ historySize = 2
    /\ lastAdd.val.before = <<<<"b">>, <<"a">>>>
    /\ lastAdd.val.newEl = <<"a">>
    /\ history = <<<<"a">>, <<"b">>>>

(***************************************************************************)
(* C20: after every addToHistory call, globalState holds the history that  *)
(* is in memory, whether the pattern was new, was moved to the front or    *)
(* the list was trimmed; so the history a new session loads is the one the *)
(* last session ended with.                                                *)
(***************************************************************************)
C20_PersistedIsCurrent ==
    IsDefined(lastAdd) => persisted = history

==========================================================================
